---- MODULE Spec2Model ----
(***************************************************************************)
(* Model of the signaling Socket of peerjs-go (socket.go): the Socket's    *)
(* fields, the caller operations Start / Send / Close, and the two         *)
(* goroutines every successful Start spawns (keepalive ping loop, receive  *)
(* loop).  Goroutines interleave at every access to the shared fields      *)
(* s.conn, s.disconnected and s.mutex; the websocket transport is the      *)
(* environment: dials, writes, reads and closes succeed or fail            *)
(* nondeterministically.                                                   *)
(***************************************************************************)
EXTENDS Integers, Sequences, FiniteSets, TLC

\* ------------------------------------------------------------------ bounds
\* Number of Dial calls the environment answers (later ones block forever).
MaxDials == 2
\* Number of threads, beside the main caller, that call Send concurrently.
NumSenders == 1
\* Number of frames the peer delivers to the receive loops in one run.
MaxFrames == 2

\* ------------------------------------------------- websocket constants
TextMessage == 1
BinaryMessage == 2
CloseNormalClosure == 1000
CloseGoingAway == 1001
CloseNoStatusReceived == 1005
CloseAbnormalClosure == 1006

\* ------------------------------------------------------------ the state
VARIABLES
    disconnected,   \* s.disconnected
    conn,           \* s.conn: NoConn (nil) or the id of a transport
    baseURL,        \* s.baseURL: <<>> ("") until the first dialing Start
    mutex,          \* s.mutex: Free or the thread holding it
    dials,          \* number of Dial calls answered so far
    created,        \* number of transports the dialer has opened (ids 1..created)
    open,           \* the transports that are open (dialed and not closed)
    closeSent,      \* the transports a close control frame was written to
    closeErrs,      \* the transports whose Close returned an error
    dialed,         \* the URLs handed to Dial, in call order
    caller,         \* per calling thread: operation, position, last return value
    ping,           \* per spawned keepalive goroutine: its position
    recv,           \* per spawned receive goroutine: its position and blocking read
    frames,         \* per receive goroutine: the frames ReadMessage returned to it
    events,         \* per receive goroutine: the events it passed to Emit
    life,           \* history: "new", "started" (a Start succeeded and no Close
                    \* has run since), "closed" (a Close ran since)
    panicked,       \* a goroutine dereferenced a nil *websocket.Conn
    opts,           \* s.opts: the configuration given to NewSocket
    enc             \* a Message and, once marshalled, its JSON encoding

vars == <<disconnected, conn, baseURL, mutex, dials, created, open, closeSent, closeErrs, dialed,
          caller, ping, recv, frames, events, life, panicked, opts, enc>>

\* nil *websocket.Conn
NoConn == 0

\* Thread 0 is the caller thread (Start, Send, Close); the others only Send.
Callers == 0..NumSenders
IsMain(c) == c = 0

\* One keepalive and one receive goroutine per successful dial.
Loops == 1..MaxDials

Free == <<"free", 0>>
CallerThread(c) == <<"caller", c>>
PingThread(k) == <<"ping", k>>

\* --------------------------------------------------------- configuration
Opts == [Secure |-> TRUE, Host |-> "sig.example.com", Port |-> 443,
         Path |-> "", Key |-> "k1"]
Ids == {"abc"}
Tokens == {"tok123"}

\* Every configuration, id and token a socket is built and started with.
Configs == [Secure : BOOLEAN, Host : {"sig.example.com", "localhost"},
            Port : {80, 443, 9000}, Path : {"", "/myapp"}, Key : {"k1", "peerjs"}]
AllIds == {"abc", "p2"}
AllTokens == {"tok123", "t2"}

Digit(d) == <<"0", "1", "2", "3", "4", "5", "6", "7", "8", "9">>[d + 1]

RECURSIVE Itoa(_)
Itoa(n) == IF n < 10 THEN <<Digit(n)>> ELSE Itoa(n \div 10) \o <<Digit(n % 10)>>

buildBaseURL ==
    LET proto == IF opts.Secure THEN "wss" ELSE "ws"
        port == Itoa(opts.Port)
    IN <<proto, "://", opts.Host, ":">> \o port \o <<opts.Path, "/peerjs?key=", opts.Key>>

\* ------------------------------------------------------------- messages
RawOpen == "{\"type\":\"OPEN\"}"
RawJunk == "{\"type\":"
Raws == {RawOpen, RawJunk}

\* A nil pointer or interface is <<>>, a set one <<v>>.
ZeroPayload == [Type |-> "", ConnectionID |-> "", Metadata |-> <<>>, Label |-> "",
                Serialization |-> "", Reliable |-> FALSE, Candidate |-> "",
                SDP |-> <<>>, Browser |-> ""]
ZeroMessage == [Type |-> "", Payload |-> ZeroPayload, Src |-> "", Dst |-> ""]
NoEnc == [msg |-> ZeroMessage, out |-> <<>>]

\* The Messages that are marshalled: every field unset or set.
Payloads == [Type : {"", "OFFER"}, ConnectionID : {"", "dc_1"},
             Metadata : {<<>>, <<"meta">>}, Label : {"", "chat"},
             Serialization : {"", "binary"}, Reliable : BOOLEAN,
             Candidate : {"", "candidate:0"},
             SDP : {<<>>, <<[Type |-> "offer", SDP |-> "v=0"]>>},
             Browser : {"", "go"}]
Messages == [Type : {"", "OFFER"}, Payload : Payloads, Src : {"", "abc"},
             Dst : {"", "xyz"}]

\* encoding/json on a struct: one <<key, value>> per field, in field order;
\* a field tagged omitempty is left out when it is "", false or nil.
Field(key, v) == <<<<key, v>>>>
OmitEmptyString(key, v) == IF v = "" THEN <<>> ELSE Field(key, v)
OmitEmptyBool(key, v) == IF v = FALSE THEN <<>> ELSE Field(key, v)
OmitEmptyNil(key, v) == IF v = <<>> THEN <<>> ELSE Field(key, v[1])

\* json.Marshal of a Payload, by its struct tags.
MarshalPayload(p) ==
    Field("type", p.Type)
    \o Field("connectionId", p.ConnectionID)
    \o OmitEmptyNil("metadata", p.Metadata)
    \o OmitEmptyString("label", p.Label)
    \o OmitEmptyString("serialization", p.Serialization)
    \o OmitEmptyBool("reliable", p.Reliable)
    \o OmitEmptyString("candidate", p.Candidate)
    \o OmitEmptyNil("sdp", p.SDP)
    \o OmitEmptyString("browser", p.Browser)

\* json.Marshal of a Message, by its struct tags.
Marshal(m) ==
    Field("type", m.Type)
    \o Field("payload", MarshalPayload(m.Payload))
    \o Field("src", m.Src)
    \o OmitEmptyString("dst", m.Dst)

\* json.Unmarshal(raw, &msg) on a zero Message
Unmarshal(raw) ==
    IF raw = RawOpen
    THEN [msg |-> [ZeroMessage EXCEPT !.Type = "OPEN"], err |-> "nil"]
    ELSE [msg |-> ZeroMessage, err |-> "unexpected end of JSON input"]

SocketEventTypeMessage == "message"
SocketEvent(type, msg, err) == [Type |-> type, Message |-> msg, Error |-> err]

\* What ReadMessage can return on transport t.
Frames == {[msgType |-> TextMessage, raw |-> RawOpen],
           [msgType |-> TextMessage, raw |-> RawJunk],
           [msgType |-> BinaryMessage, raw |-> RawOpen]}
CloseCodes == {CloseNormalClosure, CloseGoingAway, CloseNoStatusReceived,
               CloseAbnormalClosure}
ReadErrors == [kind : {"CloseError"}, code : CloseCodes]
              \cup {[kind |-> "OpError", code |-> 0]}
NoErr == [kind |-> "nil", code |-> 0]

\* ---------------------------------------------------------------- types
NewCaller == [op |-> "none", pc |-> "idle", ret |-> "nil", url |-> <<>>, prev |-> "none",
              werr |-> "nil", id |-> "", token |-> ""]
\* caller c has entered op; ret keeps the value its previous call returned,
\* werr is what the call's WriteMessage returned (nil until it has), id and
\* token are the arguments of a Start that is running
Called(c, op) == [op |-> op, pc |-> "called", ret |-> caller[c].ret, url |-> <<>>,
                  prev |-> caller[c].op, werr |-> "nil", id |-> "", token |-> ""]
Goto(c, pc, url) == [caller EXCEPT ![c].pc = pc, ![c].url = url]
Return(c, ret) == [caller EXCEPT ![c].pc = "idle", ![c].ret = ret, ![c].url = <<>>,
                                  ![c].id = "", ![c].token = ""]

PingPcs == {"none", "wait", "lock", "write", "close", "done"}
RecvPcs == {"none", "check", "call", "read", "done"}
\* A receive loop at pc, reading t; err is the error of its last ReadMessage.
RecvAt(pc, t) == [pc |-> pc, t |-> t, err |-> NoErr]

TypeOK ==
    /\ disconnected \in BOOLEAN
    /\ conn \in 0..MaxDials
    /\ baseURL \in {<<>>, buildBaseURL}
    /\ mutex \in {Free} \cup {CallerThread(c) : c \in Callers}
                        \cup {PingThread(k) : k \in Loops}
    /\ dials \in 0..MaxDials
    /\ created \in 0..dials
    /\ open \subseteq 1..created
    /\ closeSent \subseteq 1..created
    /\ closeErrs \subseteq 1..created
    /\ \A c \in Callers : caller[c].pc \in {"idle", "called", "dial", "lock", "write"}
    /\ \A k \in Loops : ping[k] \in PingPcs
    /\ \A l \in Loops : /\ recv[l].pc \in RecvPcs /\ recv[l].t \in 0..MaxDials
                        /\ recv[l].err \in ReadErrors \cup {NoErr}
    /\ \A l \in Loops : Len(frames[l]) <= MaxFrames /\ Len(events[l]) <= MaxFrames
    /\ life \in {"new", "started", "closed"}
    /\ panicked \in BOOLEAN
    /\ opts.Secure \in BOOLEAN /\ opts.Port \in Nat
    /\ enc.out \in {<<>>, Marshal(enc.msg)}

\* NewSocket: disconnected, no handle, no base URL, unlocked mutex.
NewSocket ==
    /\ disconnected = TRUE
    /\ conn = NoConn
    /\ baseURL = <<>>
    /\ mutex = Free
    /\ dials = 0
    /\ created = 0
    /\ open = {}
    /\ closeSent = {}
    /\ closeErrs = {}
    /\ dialed = <<>>
    /\ caller = [c \in Callers |-> NewCaller]
    /\ ping = [k \in Loops |-> "none"]
    /\ recv = [l \in Loops |-> RecvAt("none", NoConn)]
    /\ frames = [l \in Loops |-> <<>>]
    /\ events = [l \in Loops |-> <<>>]
    /\ life = "new"
    /\ panicked = FALSE

Init ==
    /\ NewSocket
    /\ opts = Opts
    /\ enc = NoEnc


\* ------------------------------------------------------------ transport
\* Results a write on transport t can have: a closed transport only fails.
WriteResults(t) == IF t \in open THEN {"nil", "writeErr"} ELSE {"writeErr"}
\* Results of closing transport t: closing a closed transport fails.
CloseResults(t) == IF t \in open THEN {"nil", "closeErr"} ELSE {"closeErr"}

\* ---------------------------------------------------------------- calls
\* The caller thread enters Start (line 61).
CallStart(c) ==
    /\ ~panicked
    /\ UNCHANGED <<opts, enc>>
    /\ IsMain(c)
    /\ caller[c].pc = "idle"
    /\ caller' = [caller EXCEPT ![c] = Called(c, "Start")]
    /\ UNCHANGED <<disconnected, conn, baseURL, mutex, dials, created, open,
                   closeSent, closeErrs, dialed, ping, recv, frames, events, life, panicked>>

\* The caller thread enters Close (line 151).
CallClose(c) ==
    /\ ~panicked
    /\ UNCHANGED <<opts, enc>>
    /\ IsMain(c)
    /\ caller[c].pc = "idle"
    /\ caller' = [caller EXCEPT ![c] = Called(c, "Close")]
    /\ UNCHANGED <<disconnected, conn, baseURL, mutex, dials, created, open,
                   closeSent, closeErrs, dialed, ping, recv, frames, events, life, panicked>>

\* Any thread enters Send (line 172).
CallSend(c) ==
    /\ ~panicked
    /\ UNCHANGED <<opts, enc>>
    /\ caller[c].pc = "idle"
    /\ caller' = [caller EXCEPT ![c] = Called(c, "Send")]
    /\ UNCHANGED <<disconnected, conn, baseURL, mutex, dials, created, open,
                   closeSent, closeErrs, dialed, ping, recv, frames, events, life, panicked>>

\* --------------------------------------------------------------- Start
\* A Start that caches the whole URL, id and token included.
StartBeginCacheURL(c, ids, tokens) ==
    /\ ~panicked
    /\ UNCHANGED <<opts, enc>>
    /\ caller[c].pc = "called" /\ caller[c].op = "Start"
    /\ IF ~disconnected
       THEN /\ caller' = Return(c, "nil")
            /\ UNCHANGED baseURL
       ELSE \E id \in ids, token \in tokens :
              LET url == IF baseURL = <<>>
                         THEN buildBaseURL \o <<"&id=", id, "&token=", token>>
                         ELSE baseURL
              IN /\ baseURL' = url
                 /\ caller' = [caller EXCEPT ![c].pc = "dial", ![c].url = url,
                                             ![c].id = id, ![c].token = token]
    /\ UNCHANGED <<disconnected, conn, mutex, dials, created, open, closeSent, closeErrs, dialed,
                   ping, recv, frames, events, life, panicked>>

\* Start(id, token), lines 63-72: the connected check, the cached base URL,
\* the URL.
StartBeginWith(c, ids, tokens) ==
    /\ ~panicked
    /\ UNCHANGED <<opts, enc>>
    /\ caller[c].pc = "called" /\ caller[c].op = "Start"
    /\ IF ~disconnected
       THEN /\ caller' = Return(c, "nil")
            /\ UNCHANGED baseURL
       ELSE \E id \in ids, token \in tokens :
              LET base == IF baseURL = <<>> THEN buildBaseURL ELSE baseURL
                  url == base \o <<"&id=", id, "&token=", token>>
              IN /\ baseURL' = base
                 /\ caller' = [caller EXCEPT ![c].pc = "dial", ![c].url = url,
                                             ![c].id = id, ![c].token = token]
    /\ UNCHANGED <<disconnected, conn, mutex, dials, created, open, closeSent, closeErrs, dialed,
                   ping, recv, frames, events, life, panicked>>

\* Start with the id and token of the running peer.
StartBegin(c) == StartBeginWith(c, Ids, Tokens)

\* Start with any id and token.
StartBeginAny(c) == StartBeginWith(c, AllIds, AllTokens)

\* A Start that records the dial's connection before looking at the error.
StartDialRecordFirst(c) ==
    /\ ~panicked
    /\ UNCHANGED <<opts, enc>>
    /\ caller[c].pc = "dial"
    /\ dials < MaxDials
    /\ dials' = dials + 1
    /\ dialed' = Append(dialed, caller[c].url)
    /\ \E ok \in BOOLEAN :
         IF ok
         THEN LET t == created + 1
              IN /\ created' = t
                 /\ open' = open \cup {t}
                 /\ conn' = t
                 /\ ping' = [ping EXCEPT ![t] = "wait"]
                 /\ recv' = [recv EXCEPT ![t] = RecvAt("check", NoConn)]
                 /\ caller' = Return(c, "nil")
                 /\ life' = "started"
         ELSE /\ conn' = NoConn
              /\ caller' = Return(c, "dialErr")
              /\ UNCHANGED <<created, open, ping, recv, life>>
    /\ UNCHANGED <<disconnected, baseURL, mutex, closeSent, closeErrs, frames, events, panicked>>

\* A Start that marks the socket connected when its dial succeeds.
StartDialConnects(c) ==
    /\ ~panicked
    /\ UNCHANGED <<opts, enc>>
    /\ caller[c].pc = "dial"
    /\ dials < MaxDials
    /\ dials' = dials + 1
    /\ dialed' = Append(dialed, caller[c].url)
    /\ \E ok \in BOOLEAN :
         IF ok
         THEN LET t == created + 1
              IN /\ created' = t
                 /\ open' = open \cup {t}
                 /\ conn' = t
                 /\ ping' = [ping EXCEPT ![t] = "wait"]
                 /\ recv' = [recv EXCEPT ![t] = RecvAt("check", NoConn)]
                 /\ caller' = Return(c, "nil")
                 /\ life' = "started"
                 /\ disconnected' = FALSE
         ELSE /\ caller' = Return(c, "dialErr")
              /\ UNCHANGED <<conn, created, open, ping, recv, life, disconnected>>
    /\ UNCHANGED <<baseURL, mutex, closeSent, closeErrs, frames, events, panicked>>

\* Start, lines 73-147: the dial returns; on success the handle is recorded
\* and the two goroutines are spawned.  s.disconnected is not assigned.
StartDial(c) ==
    /\ ~panicked
    /\ UNCHANGED <<opts, enc>>
    /\ caller[c].pc = "dial"
    /\ dials < MaxDials
    /\ dials' = dials + 1
    /\ dialed' = Append(dialed, caller[c].url)
    /\ \E ok \in BOOLEAN :
         IF ok
         THEN LET t == created + 1
              IN /\ created' = t
                 /\ open' = open \cup {t}
                 /\ conn' = t
                 /\ ping' = [ping EXCEPT ![t] = "wait"]
                 /\ recv' = [recv EXCEPT ![t] = RecvAt("check", NoConn)]
                 /\ caller' = Return(c, "nil")
                 /\ life' = "started"
         ELSE /\ caller' = Return(c, "dialErr")
              /\ UNCHANGED <<conn, created, open, ping, recv, life>>
    /\ UNCHANGED <<disconnected, baseURL, mutex, closeSent, closeErrs, frames, events, panicked>>

\* --------------------------------------------------------------- Close
\* A Close without the early return of lines 152-154.
CloseBodyNoGuard(ret) ==
    IF conn = NoConn
    THEN /\ panicked' = TRUE
         /\ ret = "nil"
         /\ UNCHANGED <<disconnected, conn, open, closeSent, closeErrs>>
    ELSE \E werr \in WriteResults(conn), cerr \in CloseResults(conn) :
           /\ closeSent' = IF werr = "nil" THEN closeSent \cup {conn} ELSE closeSent
           /\ closeErrs' = IF cerr = "nil" THEN closeErrs ELSE closeErrs \cup {conn}
           /\ open' = open \ {conn}
           /\ disconnected' = TRUE
           /\ conn' = NoConn
           /\ ret = cerr
           /\ UNCHANGED panicked

\* Close, lines 151-169, returning ret: the body is the close-frame write
\* (its error werr is only logged), the transport's Close, then the two
\* assignments.  s.conn is dereferenced without a check.
CloseBody(ret) ==
    IF disconnected
    THEN /\ ret = "nil"
         /\ UNCHANGED <<disconnected, conn, open, closeSent, closeErrs, panicked>>
    ELSE IF conn = NoConn
    THEN /\ panicked' = TRUE
         /\ ret = "nil"
         /\ UNCHANGED <<disconnected, conn, open, closeSent, closeErrs>>
    ELSE \E werr \in WriteResults(conn), cerr \in CloseResults(conn) :
           /\ closeSent' = IF werr = "nil" THEN closeSent \cup {conn} ELSE closeSent
           /\ closeErrs' = IF cerr = "nil" THEN closeErrs ELSE closeErrs \cup {conn}
           /\ open' = open \ {conn}
           /\ disconnected' = TRUE
           /\ conn' = NoConn
           /\ ret = cerr
           /\ UNCHANGED panicked

\* Close called by the caller thread.
Close(c) ==
    /\ ~panicked
    /\ UNCHANGED <<opts, enc>>
    /\ caller[c].pc = "called" /\ caller[c].op = "Close"
    /\ \E ret \in {"nil", "closeErr"} :
         /\ CloseBody(ret)
         /\ caller' = Return(c, ret)
    /\ life' = "closed"
    /\ UNCHANGED <<baseURL, mutex, dials, created, dialed, ping, recv,
                   frames, events>>

\* ---------------------------------------------------------------- Send
\* Send, lines 173-175.
SendCheck(c) ==
    /\ ~panicked
    /\ UNCHANGED <<opts, enc>>
    /\ caller[c].pc = "called" /\ caller[c].op = "Send"
    /\ caller' = IF conn = NoConn THEN Return(c, "nil") ELSE Goto(c, "lock", <<>>)
    /\ UNCHANGED <<disconnected, conn, baseURL, mutex, dials, created, open,
                   closeSent, closeErrs, dialed, ping, recv, frames, events, life, panicked>>

\* Send, line 176: s.mutex.Lock().
SendLock(c) ==
    /\ ~panicked
    /\ UNCHANGED <<opts, enc>>
    /\ caller[c].pc = "lock"
    /\ mutex = Free
    /\ mutex' = CallerThread(c)
    /\ caller' = Goto(c, "write", <<>>)
    /\ UNCHANGED <<disconnected, conn, baseURL, dials, created, open, closeSent, closeErrs, dialed,
                   ping, recv, frames, events, life, panicked>>

\* A Send that tears the connection down when its write fails.
SendWriteClosing(c) ==
    /\ ~panicked
    /\ UNCHANGED <<opts, enc>>
    /\ caller[c].pc = "write"
    /\ IF conn = NoConn
       THEN /\ panicked' = TRUE
            /\ UNCHANGED <<caller, mutex, conn, open>>
       ELSE /\ \E err \in WriteResults(conn) :
                 /\ caller' = [Return(c, err) EXCEPT ![c].werr = err]
                 /\ conn' = IF err = "nil" THEN conn ELSE NoConn
                 /\ open' = IF err = "nil" THEN open ELSE open \ {conn}
            /\ mutex' = Free
            /\ UNCHANGED panicked
    /\ UNCHANGED <<disconnected, baseURL, dials, created, closeSent, closeErrs, dialed,
                   ping, recv, frames, events, life>>

\* Send, lines 177-178: the write on s.conn as it is now, the deferred
\* Unlock, the write's error returned.
SendWrite(c) ==
    /\ ~panicked
    /\ UNCHANGED <<opts, enc>>
    /\ caller[c].pc = "write"
    /\ IF conn = NoConn
       THEN /\ panicked' = TRUE
            /\ UNCHANGED <<caller, mutex>>
       ELSE /\ \E err \in WriteResults(conn) :
                 caller' = [Return(c, err) EXCEPT ![c].werr = err]
            /\ mutex' = Free
            /\ UNCHANGED panicked
    /\ UNCHANGED <<disconnected, conn, baseURL, dials, created, open, closeSent, closeErrs, dialed,
                   ping, recv, frames, events, life>>

\* ----------------------------------------------------- keepalive goroutine
\* Lines 95-98: a tick; a nil handle ends the loop.
PingTick(k) ==
    /\ ~panicked
    /\ UNCHANGED <<opts, enc>>
    /\ ping[k] = "wait"
    /\ ping' = [ping EXCEPT ![k] = IF conn = NoConn THEN "close" ELSE "lock"]
    /\ UNCHANGED <<disconnected, conn, baseURL, mutex, dials, created, open,
                   closeSent, closeErrs, dialed, caller, recv, frames, events, life, panicked>>

\* A keepalive that writes its ping without waiting for the mutex.
PingLockNoWait(k) ==
    /\ ~panicked
    /\ UNCHANGED <<opts, enc>>
    /\ ping[k] = "lock"
    /\ ping' = [ping EXCEPT ![k] = "write"]
    /\ UNCHANGED <<disconnected, conn, baseURL, mutex, dials, created, open,
                   closeSent, closeErrs, dialed, caller, recv, frames, events, life, panicked>>

\* Line 99: s.mutex.Lock().
PingLock(k) ==
    /\ ~panicked
    /\ UNCHANGED <<opts, enc>>
    /\ ping[k] = "lock"
    /\ mutex = Free
    /\ mutex' = PingThread(k)
    /\ ping' = [ping EXCEPT ![k] = "write"]
    /\ UNCHANGED <<disconnected, conn, baseURL, dials, created, open, closeSent, closeErrs, dialed,
                   caller, recv, frames, events, life, panicked>>

\* A keepalive that returns on a failed write without unlocking.
PingWriteKeepsLock(k) ==
    /\ ~panicked
    /\ UNCHANGED <<opts, enc>>
    /\ ping[k] = "write"
    /\ IF conn = NoConn
       THEN /\ panicked' = TRUE
            /\ UNCHANGED <<ping, mutex>>
       ELSE /\ \E err \in WriteResults(conn) :
                 /\ ping' = [ping EXCEPT ![k] = IF err = "nil" THEN "wait" ELSE "close"]
                 /\ mutex' = IF err = "nil" THEN Free ELSE mutex
            /\ UNCHANGED panicked
    /\ UNCHANGED <<disconnected, conn, baseURL, dials, created, open, closeSent, closeErrs, dialed,
                   caller, recv, frames, events, life>>

\* Lines 100-105: the ping write on s.conn as it is now, the Unlock; a
\* write error ends the loop.
PingWrite(k) ==
    /\ ~panicked
    /\ UNCHANGED <<opts, enc>>
    /\ ping[k] = "write"
    /\ IF conn = NoConn
       THEN /\ panicked' = TRUE
            /\ UNCHANGED <<ping, mutex>>
       ELSE /\ \E err \in WriteResults(conn) :
                 ping' = [ping EXCEPT ![k] = IF err = "nil" THEN "wait" ELSE "close"]
            /\ mutex' = Free
            /\ UNCHANGED panicked
    /\ UNCHANGED <<disconnected, conn, baseURL, dials, created, open, closeSent, closeErrs, dialed,
                   caller, recv, frames, events, life>>

\* Lines 89-92: the deferred ticker.Stop() and s.Close() of the goroutine.
PingClose(k) ==
    /\ ~panicked
    /\ UNCHANGED <<opts, enc>>
    /\ ping[k] = "close"
    /\ \E ret \in {"nil", "closeErr"} : CloseBody(ret)
    /\ ping' = [ping EXCEPT ![k] = "done"]
    /\ life' = "closed"
    /\ UNCHANGED <<baseURL, mutex, dials, created, dialed, caller, recv,
                   frames, events>>


\* ------------------------------------------------------- receive goroutine
RECURSIVE TotalLen(_, _)
TotalLen(log, S) ==
    IF S = {} THEN 0
    ELSE LET l == CHOOSE x \in S : TRUE
         IN Len(log[l]) + TotalLen(log, S \ {l})

\* A receive loop that ends on every close error.
GracefulCloseAnyCode(e) ==
    e.kind = "CloseError"

\* Lines 119-125: the close errors that end the loop.
GracefulClose(e) ==
    /\ e.kind = "CloseError"
    /\ e.code \in {CloseNormalClosure, CloseGoingAway, CloseNoStatusReceived}

\* Lines 113-115: a nil handle ends the loop.
RecvCheck(l) ==
    /\ ~panicked
    /\ UNCHANGED <<opts, enc>>
    /\ recv[l].pc = "check"
    /\ recv' = [recv EXCEPT ![l] = IF conn = NoConn THEN RecvAt("done", NoConn)
                                                   ELSE RecvAt("call", NoConn)]
    /\ UNCHANGED <<disconnected, conn, baseURL, mutex, dials, created, open,
                   closeSent, closeErrs, dialed, caller, ping, frames, events, life, panicked>>

\* Line 117: s.conn.ReadMessage() is entered on s.conn as it is now.
RecvReadBegin(l) ==
    /\ ~panicked
    /\ UNCHANGED <<opts, enc>>
    /\ recv[l].pc = "call"
    /\ IF conn = NoConn
       THEN panicked' = TRUE /\ UNCHANGED recv
       ELSE recv' = [recv EXCEPT ![l] = RecvAt("read", conn)] /\ UNCHANGED panicked
    /\ UNCHANGED <<disconnected, conn, baseURL, mutex, dials, created, open,
                   closeSent, closeErrs, dialed, caller, ping, frames, events, life>>

\* A receive loop that drops the frames it cannot decode.
RecvReadEndSkipBad(l) ==
    /\ ~panicked
    /\ UNCHANGED <<opts, enc>>
    /\ recv[l].pc = "read"
    /\ \/ \E f \in Frames :
            /\ recv[l].t \in open
            /\ TotalLen(frames, Loops) < MaxFrames
            /\ frames' = [frames EXCEPT ![l] = Append(@, f)]
            /\ events' =
                 IF f.msgType = TextMessage /\ Unmarshal(f.raw).err = "nil"
                 THEN [events EXCEPT ![l] = Append(@,
                         SocketEvent(SocketEventTypeMessage, Unmarshal(f.raw).msg,
                                     Unmarshal(f.raw).err))]
                 ELSE events
            /\ recv' = [recv EXCEPT ![l] = RecvAt("check", NoConn)]
       \/ \E e \in ReadErrors :
            /\ recv[l].t \in open \/ e.kind = "OpError"
            /\ recv' = [recv EXCEPT ![l] =
                         RecvAt(IF GracefulClose(e) THEN "done" ELSE "check", NoConn)]
            /\ UNCHANGED <<frames, events>>
    /\ UNCHANGED <<disconnected, conn, baseURL, mutex, dials, created, open,
                   closeSent, closeErrs, dialed, caller, ping, life, panicked>>

\* Lines 117-143: ReadMessage returns.  A frame is logged; a text frame is
\* decoded and emitted with the decoding's error; the graceful close codes
\* end the loop, every other error goes round again.  The error is kept in
\* recv[l].err when observe is set: it is a local of the goroutine.
RecvReadEndWith(l, observe) ==
    /\ ~panicked
    /\ UNCHANGED <<opts, enc>>
    /\ recv[l].pc = "read"
    /\ \/ \E f \in Frames :
            /\ recv[l].t \in open
            /\ TotalLen(frames, Loops) < MaxFrames
            /\ frames' = [frames EXCEPT ![l] = Append(@, f)]
            /\ events' =
                 IF f.msgType = TextMessage
                 THEN [events EXCEPT ![l] = Append(@,
                         SocketEvent(SocketEventTypeMessage, Unmarshal(f.raw).msg,
                                     Unmarshal(f.raw).err))]
                 ELSE events
            /\ recv' = [recv EXCEPT ![l] = RecvAt("check", NoConn)]
       \/ \E e \in ReadErrors :
            /\ recv[l].t \in open \/ e.kind = "OpError"
            /\ recv' = [recv EXCEPT ![l] =
                         [RecvAt(IF GracefulClose(e) THEN "done" ELSE "check", NoConn)
                            EXCEPT !.err = IF observe THEN e ELSE NoErr]]
            /\ UNCHANGED <<frames, events>>
    /\ UNCHANGED <<disconnected, conn, baseURL, mutex, dials, created, open,
                   closeSent, closeErrs, dialed, caller, ping, life, panicked>>

\* The receive loop's read returns.
RecvReadEnd(l) == RecvReadEndWith(l, FALSE)

\* The receive loop's read returns and its error is kept for inspection.
RecvReadEndObserved(l) == RecvReadEndWith(l, TRUE)

\* ------------------------------------------------------------- encoding
\* A Message is marshalled for Send.
Encode ==
    /\ enc.out = <<>>
    /\ enc' = [enc EXCEPT !.out = Marshal(enc.msg)]
    /\ UNCHANGED <<disconnected, conn, baseURL, mutex, dials, created, open,
                   closeSent, closeErrs, dialed, caller, ping, recv, frames,
                   events, life, panicked, opts>>

\* --------------------------------------------------------- specifications
\* The caller operations and the keepalive goroutines: every thread that
\* writes s.conn, s.disconnected or s.mutex.
Next ==
    \/ \E c \in Callers : CallStart(c)
    \/ \E c \in Callers : CallClose(c)
    \/ \E c \in Callers : CallSend(c)
    \/ \E c \in Callers : StartBegin(c)
    \/ \E c \in Callers : StartDial(c)
    \/ \E c \in Callers : Close(c)
    \/ \E c \in Callers : SendCheck(c)
    \/ \E c \in Callers : SendLock(c)
    \/ \E c \in Callers : SendWrite(c)
    \/ \E k \in Loops : PingTick(k)
    \/ \E k \in Loops : PingLock(k)
    \/ \E k \in Loops : PingWrite(k)
    \/ \E k \in Loops : PingClose(k)

Spec == Init /\ [][Next]_vars

\* The caller's Start and Close with the receive goroutines: every thread
\* that reads the transport or publishes an event, and every writer of s.conn.
NextRecv ==
    \/ \E c \in Callers : CallStart(c)
    \/ \E c \in Callers : CallClose(c)
    \/ \E c \in Callers : StartBegin(c)
    \/ \E c \in Callers : StartDial(c)
    \/ \E c \in Callers : Close(c)
    \/ \E l \in Loops : RecvCheck(l)
    \/ \E l \in Loops : RecvReadBegin(l)
    \/ \E l \in Loops : RecvReadEnd(l)

SpecRecv == Init /\ [][NextRecv]_vars


\* ----------------------------------------------------------------- claims
\* The steps of the caller thread (thread 0), recognised by its position.
MainStartBegins == caller[0].pc = "called" /\ caller[0].op = "Start" /\ caller'[0].pc # "called"
MainDialReturns == caller[0].pc = "dial" /\ caller'[0].pc = "idle"
MainCloseRuns == caller[0].pc = "called" /\ caller[0].op = "Close" /\ caller'[0].pc = "idle"
SendChecks(c) == caller[c].pc = "called" /\ caller[c].op = "Send" /\ caller'[c].pc # "called"
DialSucceeded == created' = created + 1

\* C1: between the caller's operations, the handle is present exactly when
\* the disconnected flag is false.
C1_HandleIffConnected ==
    caller[0].pc = "idle" => ((conn # NoConn) <=> ~disconnected)

\* C2: a Start on a socket whose previous Start succeeded, with no Close
\* since, returns nil at once: no dial, the handle kept, no goroutine spawned.
C2_StartWhileConnectedIsNoOp ==
    [][(MainStartBegins /\ life = "started")
         => /\ caller'[0].pc = "idle"
            /\ caller'[0].ret = "nil"
            /\ UNCHANGED <<conn, disconnected, dials, created, ping, recv>>]_vars

\* C3: when the dial of a Start returns, then if it succeeded the new handle
\* is recorded, the disconnected flag is false and exactly one keepalive and
\* one receive goroutine are spawned; if it failed none of this happens.
C3_StartSuccessConnects ==
    [][MainDialReturns
         => IF DialSucceeded
            THEN /\ conn' = created'
                 /\ disconnected' = FALSE
                 /\ caller'[0].ret = "nil"
                 /\ Cardinality({k \in Loops : ping[k] = "none" /\ ping'[k] # "none"}) = 1
                 /\ Cardinality({l \in Loops : recv[l].pc = "none" /\ recv'[l].pc # "none"}) = 1
            ELSE UNCHANGED <<conn, disconnected, ping, recv>>]_vars

\* C4: a Close on a socket whose Start succeeded, with no Close since, leaves
\* the transport closed, the handle cleared and the state Disconnected.
C4_CloseDisconnects ==
    [][(MainCloseRuns /\ life = "started")
         => /\ conn \notin open'
            /\ conn' = NoConn
            /\ disconnected' = TRUE]_vars

\* C5: every Close leaves the socket disconnected, and a Close on a socket
\* that is disconnected (as it is after a first Close) does no transport
\* operation, changes nothing and returns nil.
C5_CloseIdempotent ==
    [][MainCloseRuns
         => /\ disconnected' = TRUE
            /\ disconnected
                 => /\ caller'[0].ret = "nil"
                    /\ UNCHANGED <<disconnected, conn, open, closeSent, closeErrs, baseURL,
                                   mutex, ping, recv, panicked>>]_vars

\* C5 witness: two Close calls in a row have returned, on a socket whose
\* Start had succeeded.
C5_Witness ==
    /\ caller[0].pc = "idle" /\ caller[0].op = "Close" /\ caller[0].prev = "Close"
    /\ caller[0].ret = "nil"
    /\ created > 0

\* C6: a Send on a socket that is Disconnected (no Start has succeeded, or a
\* Close ran since the last one that did) returns nil without going on to
\* the write.
C6_SendWhileDisconnectedIsNoOp ==
    [][\A c \in Callers :
         (SendChecks(c) /\ life # "started")
           => caller'[c].pc = "idle" /\ caller'[c].ret = "nil"]_vars

\* C7: when a keepalive goroutine ends (after a failed ping write) its
\* Close leaves the socket Disconnected, the handle cleared and the
\* transport closed, and the goroutine is done.
C7_KeepaliveFailureCloses ==
    [][\A k \in Loops :
         (ping[k] = "close" /\ ping'[k] # "close")
           => /\ ping'[k] = "done"
              /\ disconnected' = TRUE
              /\ conn' = NoConn
              /\ conn \notin open']_vars

\* C8: at most one thread (Send callers, keepalive goroutines) is at a
\* transport write, and that thread holds the mutex.
Writers ==
    {CallerThread(c) : c \in {d \in Callers : caller[d].pc = "write"}}
    \cup {PingThread(k) : k \in {j \in Loops : ping[j] = "write"}}

C8_WritesMutuallyExclusive ==
    /\ Cardinality(Writers) <= 1
    /\ \A w \in Writers : mutex = w

\* C8 witness: a Send is at its write while another Send and a keepalive
\* goroutine wait for the mutex.
C8_Witness ==
    \E c, d \in Callers, k \in Loops :
        /\ c # d
        /\ caller[c].pc = "write"
        /\ caller[d].pc = "lock"
        /\ ping[k] = "lock"

\* C9: the events a receive goroutine published are, in order, one per text
\* frame it read, with a non-nil error exactly for the frames that do not
\* decode; other frames publish nothing; and the goroutine goes on to its
\* next read after every frame, decodable or not.
IsText(f) == f.msgType = TextMessage
Decodes(f) == f.raw = RawOpen

C9_State ==
    \A l \in Loops :
        LET texts == SelectSeq(frames[l], IsText)
        IN /\ Len(events[l]) = Len(texts)
           /\ \A i \in 1..Len(texts) :
                /\ events[l][i].Type = SocketEventTypeMessage
                /\ (events[l][i].Error # "nil") <=> ~Decodes(texts[i])

C9_OneEventPerTextFrame ==
    /\ []C9_State
    /\ [][\A l \in Loops : frames'[l] # frames[l] => recv'[l].pc = "check"]_vars

\* C9 witness: a goroutine read an undecodable text frame and then a
\* decodable one, and is about to read again.
C9_Witness ==
    \E l \in Loops :
        /\ Len(frames[l]) = 2
        /\ IsText(frames[l][1]) /\ ~Decodes(frames[l][1])
        /\ IsText(frames[l][2]) /\ Decodes(frames[l][2])
        /\ Len(events[l]) = 2
        /\ recv[l].pc = "read"

\* C10: when the dial of a Start fails, Start returns the dial error and
\* changes neither the flag (the socket stays disconnected) nor the handle
\* nor the goroutines; and the next Start goes to the dial again.
C10_DialFailure ==
    [][/\ (MainDialReturns /\ ~DialSucceeded)
            => /\ caller'[0].ret = "dialErr"
               /\ disconnected' = TRUE
               /\ UNCHANGED <<disconnected, conn, open, ping, recv>>
       /\ (MainStartBegins /\ caller[0].prev = "Start" /\ caller[0].ret = "dialErr")
            => caller'[0].pc = "dial"]_vars

\* C10 witness: a Start failed, the next Start dialed again and failed too,
\* and no handle is recorded.
C10_Witness ==
    /\ caller[0].pc = "idle" /\ caller[0].op = "Start" /\ caller[0].prev = "Start"
    /\ caller[0].ret = "dialErr"
    /\ dials = 2 /\ created = 0
    /\ conn = NoConn /\ disconnected


\* C11: when the write of a Send fails, Send returns that error with the
\* mutex released, and neither the handle, the flag, the transports nor the
\* goroutines change: no Close is run.
SendWrites(c) == caller[c].pc = "write" /\ caller'[c].pc = "idle"

C11_SendFailureLeavesState ==
    [][\A c \in Callers :
         (SendWrites(c) /\ caller'[c].werr # "nil")
           => /\ caller'[c].ret = caller'[c].werr
              /\ mutex' = Free
              /\ UNCHANGED <<conn, disconnected, open, closeSent, closeErrs, ping, recv, life>>]_vars

\* C11 witness: a Send returned its write error; the handle is still
\* recorded, its transport open, the mutex free, no goroutine has ended.
C11_Witness ==
    \E c \in Callers :
        /\ caller[c].pc = "idle" /\ caller[c].op = "Send"
        /\ caller[c].werr = "writeErr" /\ caller[c].ret = "writeErr"
        /\ conn # NoConn /\ conn \in open
        /\ mutex = Free
        /\ \A k \in Loops : ping[k] \in {"none", "wait"}


\* C12: a Close on a socket whose Start succeeded, with no Close since,
\* returns what closing the transport returned (whether or not the close
\* frame could be written) and leaves the transport closed, the handle
\* cleared and the state Disconnected.
C12_CloseReturnsTransportResult ==
    [][(MainCloseRuns /\ life = "started")
         => /\ caller'[0].ret = IF conn \in closeErrs' THEN "closeErr" ELSE "nil"
            /\ conn \in open /\ conn \notin open'
            /\ conn' = NoConn
            /\ disconnected' = TRUE]_vars


\* Marshalling any Message.
InitEnc ==
    /\ NewSocket
    /\ opts = Opts
    /\ enc \in [msg : Messages, out : {<<>>}]

NextEnc == Encode

SpecEnc == InitEnc /\ [][NextEnc]_vars

\* The keys of an encoding, and the encoding of the payload inside it.
Keys(out) == {out[i][1] : i \in 1..Len(out)}
ValueAt(out, key) == out[CHOOSE i \in 1..Len(out) : out[i][1] = key][2]

\* The keys of the fields of a Message / a Payload that are unset.
UnsetMessageKeys(m) ==
    {k \in {"type", "payload", "src", "dst"} :
        \/ k = "type" /\ m.Type = ""
        \/ k = "payload" /\ m.Payload = ZeroPayload
        \/ k = "src" /\ m.Src = ""
        \/ k = "dst" /\ m.Dst = ""}
UnsetPayloadKeys(q) ==
    {k \in {"type", "connectionId", "metadata", "label", "serialization",
            "reliable", "candidate", "sdp", "browser"} :
        \/ k = "type" /\ q.Type = ""
        \/ k = "connectionId" /\ q.ConnectionID = ""
        \/ k = "metadata" /\ q.Metadata = <<>>
        \/ k = "label" /\ q.Label = ""
        \/ k = "serialization" /\ q.Serialization = ""
        \/ k = "reliable" /\ q.Reliable = FALSE
        \/ k = "candidate" /\ q.Candidate = ""
        \/ k = "sdp" /\ q.SDP = <<>>
        \/ k = "browser" /\ q.Browser = ""}

\* C13: in a marshalled Message no unset field of the Message or of its
\* Payload has its key in the encoding.
C13_UnsetFieldsAbsent ==
    enc.out # <<>>
      => /\ UnsetMessageKeys(enc.msg) \cap Keys(enc.out) = {}
         /\ "payload" \in Keys(enc.out)
              => UnsetPayloadKeys(enc.msg.Payload)
                   \cap Keys(ValueAt(enc.out, "payload")) = {}


\* Starting and closing a socket of any configuration with any id and token.
InitURL ==
    /\ NewSocket
    /\ opts \in Configs
    /\ enc = NoEnc

NextURL ==
    \E c \in Callers :
        \/ CallStart(c)
        \/ CallClose(c)
        \/ StartBeginAny(c)
        \/ StartDial(c)
        \/ Close(c)

SpecURL == InitURL /\ [][NextURL]_vars

\* The port in decimal, digit by digit.
PortText(port) ==
    CASE port = 80 -> <<"8", "0">>
      [] port = 443 -> <<"4", "4", "3">>
      [] port = 9000 -> <<"9", "0", "0", "0">>

\* {scheme}://{host}:{port}{path}/peerjs?key={key}&id={id}&token={token}
ConnectionURL(o, id, token) ==
    <<IF o.Secure THEN "wss" ELSE "ws", "://", o.Host, ":">>
    \o PortText(o.Port)
    \o <<o.Path, "/peerjs?key=", o.Key, "&id=", id, "&token=", token>>

\* C14: every dial of Start(id, token) is handed the connection URL of the
\* socket's configuration, id and token, also when the base URL is cached.
C14_DialedURL ==
    [][\A c \in Callers :
         (caller[c].pc = "dial" /\ dials' = dials + 1)
           => /\ Len(dialed') = dials'
              /\ dialed'[dials'] = ConnectionURL(opts, caller[c].id, caller[c].token)]_vars

\* C14 witness: a secure socket for sig.example.com:443 with key k1 was
\* started with another id and token, and its second Start, with the base
\* URL cached, dialed wss://sig.example.com:443/peerjs?key=k1&id=abc&token=tok123.
C14_Witness ==
    /\ opts = Opts
    /\ Len(dialed) = 2
    /\ dialed[1] = ConnectionURL(Opts, "p2", "t2")
    /\ dialed[2] = <<"wss", "://", "sig.example.com", ":", "4", "4", "3", "",
                     "/peerjs?key=", "k1", "&id=", "abc", "&token=", "tok123">>
    /\ baseURL # <<>>
    /\ caller[0].op = "Start" /\ caller[0].pc = "idle"


\* Keepalive loop k writes a ping and the write succeeds.
PingSent(k) == ping[k] = "write" /\ ping'[k] = "wait"

\* C15: once Close has completed on a started socket and until the next
\* Start, no keepalive loop sends a further ping: the loops are terminating.
C15_NoPingAfterClose ==
    [][\A k \in Loops : life = "closed" => ~PingSent(k)]_vars


\* Starting a socket and receiving on it, the read errors kept.
NextRead ==
    \/ \E c \in Callers : CallStart(c)
    \/ \E c \in Callers : StartBegin(c)
    \/ \E c \in Callers : StartDial(c)
    \/ \E l \in Loops : RecvCheck(l)
    \/ \E l \in Loops : RecvReadBegin(l)
    \/ \E l \in Loops : RecvReadEndObserved(l)

SpecRead == Init /\ [][NextRead]_vars

\* The read of receive loop l returns an error.
ReadFails(l) == recv[l].pc = "read" /\ recv'[l].err # NoErr

\* C16: on a read error the receive loop ends exactly when the error is a
\* close error with code 1000, 1001 or 1005; otherwise it goes round to read
\* again; either way it emits nothing, does not call Close and leaves the
\* handle and the disconnected flag alone.
C16_ReadErrorHandling ==
    [][\A l \in Loops :
         ReadFails(l)
           => /\ recv'[l].pc = IF /\ recv'[l].err.kind = "CloseError"
                                  /\ recv'[l].err.code \in {1000, 1001, 1005}
                               THEN "done" ELSE "check"
              /\ recv'[l].pc = "check" => conn' # NoConn
              /\ UNCHANGED <<events, frames, conn, disconnected, open, closeSent,
                             closeErrs, life, caller, ping, mutex>>]_vars

\* C16 witness: one receive loop has ended on a going-away close error, the
\* other goes on after a network error.
C16_Witness ==
    /\ recv[1].pc = "done" /\ recv[1].err = [kind |-> "CloseError", code |-> CloseGoingAway]
    /\ recv[2].pc = "check" /\ recv[2].err = [kind |-> "OpError", code |-> 0]
    /\ conn = 2 /\ open = {1, 2} /\ disconnected
    /\ events = [l \in Loops |-> <<>>]


\* The receive loops that are inside a ReadMessage on transport t.
Readers(t) == {l \in Loops : recv[l].pc = "read" /\ recv[l].t = t}

\* C17: no transport is read by two receive loops at the same time.
C17_SingleReader ==
    \A t \in 1..created : Cardinality(Readers(t)) <= 1


C19_NoTransportLeaked ==
    /\ Cardinality(open) <= 1
    /\ open \subseteq {conn}


\* The thread that calls Start and Close.
MainThread == {c \in Callers : IsMain(c)}

\* The scheduler runs every thread that can take a step, every transport
\* write returns, and sync.Mutex hands the lock to a goroutine that keeps
\* waiting for it (its starvation mode).
Fairness ==
    /\ \A c \in MainThread : WF_vars(SendCheck(c)) /\ SF_vars(SendLock(c))
    /\ \A k \in Loops : SF_vars(PingLock(k))
    /\ WF_vars((\E c \in Callers : SendWrite(c)) \/ (\E k \in Loops : PingWrite(k)))

\* The caller thread starts the socket and sends on it while the keepalive
\* loops ping.
NextLock ==
    \/ \E c \in Callers : CallStart(c)
    \/ \E c \in MainThread : CallSend(c)
    \/ \E c \in Callers : StartBegin(c)
    \/ \E c \in Callers : StartDial(c)
    \/ \E c \in Callers : SendCheck(c)
    \/ \E c \in Callers : SendLock(c)
    \/ \E c \in Callers : SendWrite(c)
    \/ \E k \in Loops : PingTick(k)
    \/ \E k \in Loops : PingLock(k)
    \/ \E k \in Loops : PingWrite(k)
    \/ \E k \in Loops : PingClose(k)

SpecFair == Init /\ [][NextLock]_vars /\ Fairness

\* A thread takes a step out of its write under the mutex.
WriteReturns ==
    \/ \E c \in Callers : caller[c].pc = "write" /\ caller'[c].pc # "write"
    \/ \E k \in Loops : ping[k] = "write" /\ ping'[k] # "write"

\* The thread that holds the mutex is the one thread that is in its write.
HolderWrites ==
    /\ \A c \in Callers : mutex = CallerThread(c) <=> caller[c].pc = "write"
    /\ \A k \in Loops : mutex = PingThread(k) <=> ping[k] = "write"

\* C20: the mutex is free after every write made under it, failed or not,
\* and is held only by a thread in its write, so not by a keepalive loop
\* that goes on to call Close; every Send that was called returns, and every
\* keepalive loop waiting for the mutex gets it.
C20_LockReleased ==
    /\ [][WriteReturns => mutex' = Free]_vars
    /\ []HolderWrites
    /\ \A c \in MainThread :
         (caller[c].op = "Send" /\ caller[c].pc # "idle") ~> (caller[c].pc = "idle")
    /\ \A k \in Loops : (ping[k] = "lock") ~> (ping[k] = "write")

\* C20 witness: the caller, whose last Send returned its write's error, is in
\* the write of its next Send, holding the mutex; a keepalive loop has called
\* Close after a failed ping and another waits for the mutex.
C20_Witness ==
    /\ caller[0].op = "Send" /\ caller[0].pc = "write" /\ caller[0].ret = "writeErr"
    /\ mutex = CallerThread(0)
    /\ ping[1] = "done"
    /\ ping[2] = "lock"

====
